---- MODULE Spec2Model ----
(***************************************************************************)
(* Model of ericspeed: the terminal main loop (main.rs run_app), the App   *)
(* state (app.rs), the orchestrator task run_speed_test (app.rs) and the   *)
(* three probe tasks PingTest, DownloadTest and UploadTest (speedtest/).   *)
(*                                                                         *)
(* Tasks are tokio tasks on the multi-threaded runtime: the main loop, one *)
(* orchestrator per started run and one probe per phase of a run.  Every   *)
(* action below is one step of one task between two of its await points.   *)
(*                                                                         *)
(* f64 values are modelled by integers with floor division; times are in   *)
(* milliseconds, sizes in bytes.  Settings are scaled down (MaxPingCount,  *)
(* MaxUploadMb) and channel capacity 32 is scaled to ChanCap so that full  *)
(* queues and overlapping runs are reached.  A run lives in a slot; the    *)
(* slot of a run whose orchestrator has returned and whose receiver the    *)
(* main loop has dropped is reset and may be taken by a later run.         *)
(***************************************************************************)
EXTENDS Integers, Sequences, FiniteSets, TLC

\* ---------------------------------------------------------------- bounds
MaxPingCount == 1   \* settings.ping_count used by the runs
MaxChunks == 2      \* chunks a download response stream may deliver
MaxUploadMb == 4    \* settings.upload_size_mb used by the runs
ChanCap == 1        \* capacity of the mpsc channels (32 in the code)

\* ------------------------------------------------------ program constants
CHUNK_SIZE == 1000000
SAMPLE_INTERVAL_MS == 100
SPEED_WINDOW == 200
PING_WINDOW == 100

None == 0
\* slots for the runs whose tasks may be alive at the same time
Runs == {1, 2}
Kinds == <<"Ping", "Download", "Upload">>
KindSet == {"Ping", "Download", "Upload"}
Keys == {"Enter", "Esc", "s"}
\* wall-clock time one network operation may take, in ms
Dts == {50}
\* round-trip time of the i-th latency attempt, in ms
Rtt(i) == 10 * i

Last(s) == s[Len(s)]
Min(a, b) == IF a < b THEN a ELSE b

RECURSIVE SumSeq(_)
SumSeq(s) == IF s = <<>> THEN 0 ELSE Head(s) + SumSeq(Tail(s))

RECURSIVE SumSqDev(_, _)
SumSqDev(s, m) ==
  IF s = <<>> THEN 0 ELSE (Head(s) - m) * (Head(s) - m) + SumSqDev(Tail(s), m)

Isqrt(x) == CHOOSE r \in 0..x : r * r <= x /\ (r + 1) * (r + 1) > x

\* ------------------------------------------------------------- settings
download_size_bytes(s) == s.download_size_mb * 1000000
upload_size_bytes(s) == s.upload_size_mb * 1000000

\* --------------------------------------------------------------- events
PingProgressEv(latest) == [kind |-> "PingProgress", latest_ping |-> latest]
PingCompleteEv(res) ==
  [kind |-> "PingComplete", avg_ms |-> res.avg_ms, jitter_ms |-> res.jitter_ms]
DownloadProgressEv(done, total, samples) ==
  [kind |-> "DownloadProgress", downloaded_bytes |-> done,
   total_bytes |-> total, speed_samples |-> samples]
DownloadCompleteEv(res) ==
  [kind |-> "DownloadComplete", speed_mbps |-> res.avg_speed_mbps]
\* variant of UploadProgressEv whose total is the byte count so far
UploadProgressEv_TotalSoFar(done, total, samples) ==
  [kind |-> "UploadProgress", uploaded_bytes |-> done,
   total_bytes |-> done, speed_samples |-> samples]

UploadProgressEv(done, total, samples) ==
  [kind |-> "UploadProgress", uploaded_bytes |-> done,
   total_bytes |-> total, speed_samples |-> samples]
UploadCompleteEv(res) ==
  [kind |-> "UploadComplete", speed_mbps |-> res.avg_speed_mbps]

CompleteEv(k, res) ==
  CASE k = "Ping" -> PingCompleteEv(res)
    [] k = "Download" -> DownloadCompleteEv(res)
    [] k = "Upload" -> UploadCompleteEv(res)

ProgressKind(k) == k \o "Progress"
CompleteKind(k) == k \o "Complete"

\* ------------------------------------------------------------------ App
DefaultResult ==
  [download_mbps |-> 0, upload_mbps |-> 0, ping_ms |-> 0, jitter_ms |-> 0]

AppNew(s) ==
  [phase |-> "Idle", result |-> DefaultResult, view |-> "Main",
   expanded |-> FALSE, settings |-> s, selected_setting |-> "PingCount",
   download_progress |-> 0, upload_progress |-> 0,
   download_samples |-> <<>>, upload_samples |-> <<>>, ping_samples |-> <<>>,
   cancel_tx |-> None]

\* variant of handle_main_key whose 's' arm opens the settings in any phase
handle_main_key_SettingsAnytime(a, k) ==
  CASE k = "s" ->
         [app |-> [a EXCEPT !.view = "Settings"], action |-> "None"]
    [] k = "Enter" ->
         IF a.expanded
         THEN [app |-> [a EXCEPT !.expanded = FALSE], action |-> "None"]
         ELSE IF a.phase = "Idle" \/ a.phase = "Complete"
         THEN [app |-> a, action |-> "StartTest"]
         ELSE [app |-> [a EXCEPT !.expanded = TRUE], action |-> "None"]
    [] k = "Esc" ->
         IF a.expanded
         THEN [app |-> [a EXCEPT !.expanded = FALSE], action |-> "None"]
         ELSE IF a.phase # "Idle" /\ a.phase # "Complete"
         THEN [app |-> a, action |-> "CancelTest"]
         ELSE [app |-> a, action |-> "None"]
    [] k = "Space" ->
         [app |-> [a EXCEPT !.expanded = ~a.expanded], action |-> "None"]
    [] OTHER -> [app |-> a, action |-> "None"]

\* variant of handle_main_key whose Esc arm cancels before it looks at the
\* expanded panel
handle_main_key_EscCancelsFirst(a, k) ==
  CASE k = "s" ->
         [app |-> IF a.phase = "Idle" \/ a.phase = "Complete"
                  THEN [a EXCEPT !.view = "Settings"] ELSE a,
          action |-> "None"]
    [] k = "Enter" ->
         IF a.expanded
         THEN [app |-> [a EXCEPT !.expanded = FALSE], action |-> "None"]
         ELSE IF a.phase = "Idle" \/ a.phase = "Complete"
         THEN [app |-> a, action |-> "StartTest"]
         ELSE [app |-> [a EXCEPT !.expanded = TRUE], action |-> "None"]
    [] k = "Esc" ->
         IF a.phase # "Idle" /\ a.phase # "Complete"
         THEN [app |-> a, action |-> "CancelTest"]
         ELSE IF a.expanded
         THEN [app |-> [a EXCEPT !.expanded = FALSE], action |-> "None"]
         ELSE [app |-> a, action |-> "None"]
    [] k = "Space" ->
         [app |-> [a EXCEPT !.expanded = ~a.expanded], action |-> "None"]
    [] OTHER -> [app |-> a, action |-> "None"]

\* variant of handle_main_key whose Esc arm tests only for Idle
handle_main_key_EscUnlessIdle(a, k) ==
  CASE k = "s" ->
         [app |-> IF a.phase = "Idle" \/ a.phase = "Complete"
                  THEN [a EXCEPT !.view = "Settings"] ELSE a,
          action |-> "None"]
    [] k = "Enter" ->
         IF a.expanded
         THEN [app |-> [a EXCEPT !.expanded = FALSE], action |-> "None"]
         ELSE IF a.phase = "Idle" \/ a.phase = "Complete"
         THEN [app |-> a, action |-> "StartTest"]
         ELSE [app |-> [a EXCEPT !.expanded = TRUE], action |-> "None"]
    [] k = "Esc" ->
         IF a.expanded
         THEN [app |-> [a EXCEPT !.expanded = FALSE], action |-> "None"]
         ELSE IF a.phase # "Idle"
         THEN [app |-> a, action |-> "CancelTest"]
         ELSE [app |-> a, action |-> "None"]
    [] OTHER -> [app |-> a, action |-> "None"]

handle_main_key(a, k) ==
  CASE k = "s" ->
         [app |-> IF a.phase = "Idle" \/ a.phase = "Complete"
                  THEN [a EXCEPT !.view = "Settings"] ELSE a,
          action |-> "None"]
    [] k = "Enter" ->
         IF a.expanded
         THEN [app |-> [a EXCEPT !.expanded = FALSE], action |-> "None"]
         ELSE IF a.phase = "Idle" \/ a.phase = "Complete"
         THEN [app |-> a, action |-> "StartTest"]
         ELSE [app |-> [a EXCEPT !.expanded = TRUE], action |-> "None"]
    [] k = "Esc" ->
         IF a.expanded
         THEN [app |-> [a EXCEPT !.expanded = FALSE], action |-> "None"]
         ELSE IF a.phase # "Idle" /\ a.phase # "Complete"
         THEN [app |-> a, action |-> "CancelTest"]
         ELSE [app |-> a, action |-> "None"]
    [] k = "Space" ->
         [app |-> [a EXCEPT !.expanded = ~a.expanded], action |-> "None"]
    [] OTHER -> [app |-> a, action |-> "None"]

\* SettingsField::next and SettingsField::prev
FieldNext(f) ==
  CASE f = "PingCount" -> "DownloadSize" [] f = "DownloadSize" -> "UploadSize"
    [] f = "UploadSize" -> "PingCount"
FieldPrev(f) ==
  CASE f = "PingCount" -> "UploadSize" [] f = "DownloadSize" -> "PingCount"
    [] f = "UploadSize" -> "DownloadSize"

\* usize::saturating_sub
SatSub(x, y) == IF x > y THEN x - y ELSE 0
Max(a, b) == IF a > b THEN a ELSE b

\* variant of increase_setting without the upper bounds
increase_setting_Unclamped(a) ==
  CASE a.selected_setting = "PingCount" ->
         [a EXCEPT !.settings.ping_count = @ + 5]
    [] a.selected_setting = "DownloadSize" ->
         [a EXCEPT !.settings.download_size_mb = @ + 25]
    [] a.selected_setting = "UploadSize" ->
         [a EXCEPT !.settings.upload_size_mb = @ + 25]

increase_setting(a) ==
  CASE a.selected_setting = "PingCount" ->
         [a EXCEPT !.settings.ping_count = Min(@ + 5, 100)]
    [] a.selected_setting = "DownloadSize" ->
         [a EXCEPT !.settings.download_size_mb = Min(@ + 25, 500)]
    [] a.selected_setting = "UploadSize" ->
         [a EXCEPT !.settings.upload_size_mb = Min(@ + 25, 250)]

decrease_setting(a) ==
  CASE a.selected_setting = "PingCount" ->
         [a EXCEPT !.settings.ping_count = Max(SatSub(@, 5), 5)]
    [] a.selected_setting = "DownloadSize" ->
         [a EXCEPT !.settings.download_size_mb = Max(SatSub(@, 25), 25)]
    [] a.selected_setting = "UploadSize" ->
         [a EXCEPT !.settings.upload_size_mb = Max(SatSub(@, 25), 25)]

handle_settings_key(a, k) ==
  CASE k = "Esc" -> [app |-> [a EXCEPT !.view = "Main"], action |-> "None"]
    [] k = "Enter" -> [app |-> [a EXCEPT !.view = "Main"], action |-> "None"]
    [] k = "Up" ->
         [app |-> [a EXCEPT !.selected_setting = FieldPrev(@)],
          action |-> "None"]
    [] k = "Down" ->
         [app |-> [a EXCEPT !.selected_setting = FieldNext(@)],
          action |-> "None"]
    [] k = "Left" -> [app |-> decrease_setting(a), action |-> "None"]
    [] k = "Right" -> [app |-> increase_setting(a), action |-> "None"]
    [] OTHER -> [app |-> a, action |-> "None"]

handle_key_event(a, k) ==
  IF a.view = "Main" THEN handle_main_key(a, k) ELSE handle_settings_key(a, k)

\* variant of reset_for_new_test that leaves the latency samples in place
reset_for_new_test_KeepsPings(a) ==
  [a EXCEPT !.phase = "Idle", !.result = DefaultResult,
            !.download_progress = 0, !.upload_progress = 0,
            !.download_samples = <<>>, !.upload_samples = <<>>,
            !.expanded = FALSE]

reset_for_new_test(a) ==
  [a EXCEPT !.phase = "Idle", !.result = DefaultResult,
            !.download_progress = 0, !.upload_progress = 0,
            !.download_samples = <<>>, !.upload_samples = <<>>,
            !.ping_samples = <<>>, !.expanded = FALSE]

update_ping_progress(a, p) ==
  IF p.latest_ping # <<>>
  THEN LET pushed == Append(a.ping_samples, p.latest_ping[1])
       IN [a EXCEPT !.ping_samples =
             IF Len(pushed) > PING_WINDOW THEN Tail(pushed) ELSE pushed]
  ELSE a

\* variant of update_download_progress that also shows the latest sample as
\* the download result
update_download_progress_WritesResult(a, p) ==
  [a EXCEPT !.download_progress = (p.downloaded_bytes * 100) \div p.total_bytes,
            !.download_samples = p.speed_samples,
            !.result.download_mbps = Last(p.speed_samples)]

\* progress is the f64 ratio done/total; kept here in percent
update_download_progress(a, p) ==
  [a EXCEPT !.download_progress = (p.downloaded_bytes * 100) \div p.total_bytes,
            !.download_samples = p.speed_samples]

update_upload_progress(a, p) ==
  [a EXCEPT !.upload_progress = (p.uploaded_bytes * 100) \div p.total_bytes,
            !.upload_samples = p.speed_samples]

\* variant of complete_test that leaves the phase as it is
complete_test_KeepsPhase(a) == a

complete_test(a) == [a EXCEPT !.phase = "Complete"]

set_cancel_tx(a, tx) == [a EXCEPT !.cancel_tx = tx]

\* variant of cancel_test that sends on the sender without taking it
cancel_test_KeepsSender(a) ==
  [app |-> [a EXCEPT !.phase = "Idle"], signal |-> a.cancel_tx]

\* variant of cancel_test that also clears the result
cancel_test_ClearsResult(a) ==
  [app |-> [a EXCEPT !.cancel_tx = None, !.phase = "Idle",
                     !.result = DefaultResult],
   signal |-> a.cancel_tx]

\* signal is the run whose cancel channel try_send is called on (None: no send)
cancel_test(a) ==
  [app |-> [a EXCEPT !.cancel_tx = None, !.phase = "Idle"],
   signal |-> a.cancel_tx]

handle_update(a, u) ==
  CASE u.kind = "PingProgress" -> update_ping_progress(a, u)
    [] u.kind = "PingComplete" ->
         [a EXCEPT !.result.ping_ms = u.avg_ms,
                   !.result.jitter_ms = u.jitter_ms,
                   !.phase = "Download"]
    [] u.kind = "DownloadProgress" -> update_download_progress(a, u)
    [] u.kind = "DownloadComplete" ->
         [a EXCEPT !.result.download_mbps = u.speed_mbps, !.phase = "Upload"]
    [] u.kind = "UploadProgress" -> update_upload_progress(a, u)
    [] u.kind = "UploadComplete" ->
         complete_test([a EXCEPT !.result.upload_mbps = u.speed_mbps])

\* --------------------------------------------------------------- probes
\* variant of calculate_result that divides the squared deviations by n
calculate_result_DividesByN(samples) ==
  IF samples = <<>>
  THEN [avg_ms |-> 0, jitter_ms |-> 0]
  ELSE LET avg == SumSeq(samples) \div Len(samples)
           jitter == IF Len(samples) > 1
                     THEN Isqrt(SumSqDev(samples, avg) \div Len(samples))
                     ELSE 0
       IN [avg_ms |-> avg, jitter_ms |-> jitter]

calculate_result(samples) ==
  IF samples = <<>>
  THEN [avg_ms |-> 0, jitter_ms |-> 0]
  ELSE LET avg == SumSeq(samples) \div Len(samples)
           jitter == IF Len(samples) > 1
                     THEN Isqrt(SumSqDev(samples, avg) \div (Len(samples) - 1))
                     ELSE 0
       IN [avg_ms |-> avg, jitter_ms |-> jitter]

\* (bytes * 8) / seconds / 1_000_000 with the time given in ms
Mbps(bytes, ms) == (bytes * 8) \div (ms * 1000)

\* variant of PushSample that keeps the oldest values when the window is full
PushSample_KeepsOldest(samples, v) ==
  IF Len(samples) >= SPEED_WINDOW THEN samples ELSE Append(samples, v)

PushSample(samples, v) ==
  LET pushed == Append(samples, v)
  IN IF Len(pushed) > SPEED_WINDOW THEN Tail(pushed) ELSE pushed

\* first await point of a probe after its client is built
FirstPc(k) ==
  CASE k = "Ping" -> "attempt" [] k = "Download" -> "request"
    [] k = "Upload" -> "post"

ProbeNew(k, size) ==
  [st |-> "running", pc |-> FirstPc(k), size |-> size, i |-> 0,
   now |-> 0, last_update |-> 0, bytes |-> 0, last_bytes |-> 0,
   total |-> 0, samples |-> <<>>, res |-> <<>>]

ProbeNone == [ProbeNew("Ping", 0) EXCEPT !.st = "unspawned"]
\* a task that has ended keeps only its output
ProbeEnded(st, res) == [ProbeNone EXCEPT !.st = st, !.res = res]
ProbesNone == [k \in KindSet |-> ProbeNone]
ChansNone == [k \in KindSet |-> <<>>]
SettingsNone == [ping_count |-> 0, download_size_mb |-> 0, upload_size_mb |-> 0]

ProbeSize(k, s) ==
  CASE k = "Ping" -> s.ping_count
    [] k = "Download" -> download_size_bytes(s)
    [] k = "Upload" -> upload_size_bytes(s)

\* variant of NextKind that goes from Ping straight to Upload
NextKind_SkipDownload(k) == "Upload"

NextKind(k) == IF k = "Ping" THEN "Download" ELSE "Upload"

VARIABLES
  app,        \* the App struct
  test_rx,    \* run_app: run whose update receiver is held, or None
  pc_main,    \* run_app: "recv" before try_recv, "input" before poll_event
  key,        \* key handled by the latest poll_event ("none": no key)
  orch,       \* orch[r]: position of run r's run_speed_test task
  probe,      \* probe[r][k]: probe task of phase k of run r
  pchan,      \* pchan[r][k]: probe -> orchestrator progress channel
  uchan,      \* uchan[r]: orchestrator -> main loop update channel
  cancel_slot,\* cancel_slot[r]: messages in run r's cancel channel (0 or 1)
  runset,     \* settings copy owned by run r
  produced,   \* history: produced[r][k], progress events the probe has sent
  emitted,    \* history: emitted[r], events the orchestrator has sent
  delivered,  \* history: delivered[r], events applied by handle_update
  cancelled,  \* history: cancelled[r], what was in flight when cancel came
  unit        \* a component run on its own: its inputs, state and output

vars == <<app, test_rx, pc_main, key, orch, probe, pchan, uchan,
          cancel_slot, runset, produced, emitted, delivered, cancelled, unit>>

mainVars == <<app, test_rx, pc_main, key>>
histVars == <<produced, emitted, delivered, cancelled>>

SettingsDomain ==
  [ping_count : {MaxPingCount}, download_size_mb : {1},
   upload_size_mb : {MaxUploadMb}]

OrchNone == [pc |-> "unborn", k |-> "Ping", ev |-> <<>>, outcome |-> "none"]

\* no component is run on its own
UnitNone == [mode |-> "none"]

\* run_app before its first loop iteration
ProgramInit ==
  /\ app \in {AppNew(s) : s \in SettingsDomain}
  /\ test_rx = None
  /\ pc_main = "recv"
  /\ key = "none"
  /\ orch = [r \in Runs |-> OrchNone]
  /\ probe = [r \in Runs |-> ProbesNone]
  /\ pchan = [r \in Runs |-> ChansNone]
  /\ uchan = [r \in Runs |-> <<>>]
  /\ cancel_slot = [r \in Runs |-> 0]
  /\ runset = [r \in Runs |-> SettingsNone]
  /\ produced = [r \in Runs |-> ChansNone]
  /\ emitted = [r \in Runs |-> <<>>]
  /\ delivered = [r \in Runs |-> <<>>]
  /\ cancelled = [r \in Runs |-> "no"]

Init == ProgramInit /\ unit = UnitNone

\* ------------------------------------------------------ channel helpers
OrchAlive(r) == orch[r].pc \notin {"unborn", "returned"}
\* the update receiver of run r is the one run_app holds in test_rx
UpdateRxAlive(r) == test_rx = r
\* the update sender lives until run_speed_test returns
UpdateTxAlive(r) == OrchAlive(r)
\* the progress receivers live until run_speed_test returns
ProgressRxAlive(r) == OrchAlive(r)
\* the progress sender lives as long as the probe task
ProgressTxAlive(r, k) == probe[r][k].st = "running"

RunningProbes == {rk \in Runs \X KindSet : probe[rk[1]][rk[2]].st = "running"}

InFlight(r) ==
  IF \E k \in KindSet : probe[r][k].st = "running" THEN "inflight"
  ELSE "noprobe"

\* ------------------------------------------------------------ main loop
\* dropping the receiver held in test_rx: the queued updates are destroyed,
\* and the slot is reset when the orchestrator has already returned
Dropped(f, init) ==
  IF test_rx = None THEN f ELSE [f EXCEPT ![test_rx] = init]
DroppedIfReturned(f, init) ==
  IF test_rx # None /\ orch[test_rx].pc = "returned"
  THEN [f EXCEPT ![test_rx] = init] ELSE f

\* main.rs 34-45: one try_recv on the update channel per loop iteration
LoopRecv ==
  /\ pc_main = "recv"
  /\ pc_main' = "input"
  /\ key' = "none"
  /\ IF test_rx = None
     THEN UNCHANGED <<app, test_rx, uchan, delivered, orch, probe, runset,
                      emitted, produced>>
     ELSE IF uchan[test_rx] # <<>>
     THEN /\ app' = handle_update(app, Head(uchan[test_rx]))
          /\ uchan' = [uchan EXCEPT ![test_rx] = Tail(@)]
          /\ delivered' =
               [delivered EXCEPT ![test_rx] = Append(@, Head(uchan[test_rx]))]
          /\ UNCHANGED <<test_rx, orch, probe, runset, emitted, produced>>
     ELSE IF UpdateTxAlive(test_rx)
     THEN UNCHANGED <<app, test_rx, uchan, delivered, orch, probe, runset,
                      emitted, produced>>
     ELSE /\ app' = IF app.phase # "Idle" THEN complete_test(app) ELSE app
          /\ test_rx' = None
          /\ orch' = Dropped(orch, OrchNone)
          /\ probe' = Dropped(probe, ProbesNone)
          /\ runset' = Dropped(runset, SettingsNone)
          /\ delivered' = Dropped(delivered, <<>>)
          /\ emitted' = Dropped(emitted, <<>>)
          /\ produced' = Dropped(produced, ChansNone)
          /\ UNCHANGED uchan
  /\ UNCHANGED <<pchan, cancel_slot, cancelled, unit>>

\* main.rs 52-66
StartTest(a) ==
  LET o1 == DroppedIfReturned(orch, OrchNone)
      free == {r \in Runs : o1[r].pc = "unborn"}
      new == CHOOSE r \in free : \A q \in free : r <= q
  IN /\ free # {}
     /\ app' = set_cancel_tx([reset_for_new_test(a) EXCEPT !.phase = "Ping"],
                             new)
     /\ test_rx' = new
     /\ orch' = [o1 EXCEPT ![new].pc = "init"]
     /\ runset' = [DroppedIfReturned(runset, SettingsNone)
                     EXCEPT ![new] = a.settings]
     /\ probe' = DroppedIfReturned(probe, ProbesNone)
     /\ uchan' = Dropped(uchan, <<>>)
     /\ delivered' = Dropped(delivered, <<>>)
     /\ emitted' = Dropped(emitted, <<>>)
     /\ produced' = Dropped(produced, ChansNone)
     /\ UNCHANGED <<pchan, cancel_slot, cancelled, unit>>

\* main.rs 67-70
CancelTest(a) ==
  LET c == cancel_test(a)
      sent == c.signal # None /\ OrchAlive(c.signal)
  IN /\ app' = c.app
     /\ test_rx' = None
     /\ cancel_slot' =
          IF sent /\ cancel_slot[c.signal] < 1
          THEN [cancel_slot EXCEPT ![c.signal] = @ + 1] ELSE cancel_slot
     /\ cancelled' =
          IF sent THEN [cancelled EXCEPT ![c.signal] = InFlight(c.signal)]
          ELSE cancelled
     /\ orch' = DroppedIfReturned(orch, OrchNone)
     /\ runset' = DroppedIfReturned(runset, SettingsNone)
     /\ probe' = DroppedIfReturned(probe, ProbesNone)
     /\ uchan' = Dropped(uchan, <<>>)
     /\ delivered' = Dropped(delivered, <<>>)
     /\ emitted' = Dropped(emitted, <<>>)
     /\ produced' = Dropped(produced, ChansNone)
     /\ UNCHANGED <<pchan, unit>>

\* main.rs 48-73: poll_event, handle_key_event and the action dispatch
LoopInput(k) ==
  /\ pc_main = "input"
  /\ pc_main' = "recv"
  /\ key' = k
  /\ LET h == IF k = "none" THEN [app |-> app, action |-> "None"]
              ELSE handle_key_event(app, k)
     IN CASE h.action = "StartTest" -> StartTest(h.app)
          [] h.action = "CancelTest" -> CancelTest(h.app)
          [] OTHER -> /\ app' = h.app
                      /\ UNCHANGED <<unit, test_rx, orch, probe, pchan,
                                     uchan, cancel_slot, runset, histVars>>

\* --------------------------------------------------------- orchestrator
\* variant of SpawnSize that reads the settings the App holds at the spawn
SpawnSize_SharedSettings(r, k) == ProbeSize(k, app.settings)

\* app.rs 282, 306, 330: the count or size handed to the probe of phase k,
\* read from the settings value run_speed_test owns
SpawnSize(r, k) == ProbeSize(k, runset[r])

\* app.rs 282-287: the task starts and spawns the ping probe
OrchBegin(r) ==
  /\ orch[r].pc = "init"
  /\ orch' = [orch EXCEPT ![r].pc = "recv", ![r].k = "Ping"]
  /\ probe' = [probe EXCEPT ![r]["Ping"] = ProbeNew("Ping", SpawnSize(r, "Ping"))]
  /\ UNCHANGED <<unit, mainVars, pchan, uchan, cancel_slot, runset, histVars>>

\* JoinHandle::abort on the probe of phase k
Abort(pr, r, k) ==
  IF pr[r][k].st = "running"
  THEN [pr EXCEPT ![r][k] = ProbeEnded("aborted", <<>>)]
  ELSE pr

\* run_speed_test returns: its channel ends are dropped; pr is the probe
\* table at that point
Return(r, outcome, pr) ==
  /\ orch' = [orch EXCEPT ![r] =
                IF test_rx = r
                THEN [OrchNone EXCEPT !.pc = "returned", !.k = orch[r].k,
                                      !.outcome = outcome]
                ELSE OrchNone]
  /\ probe' = IF test_rx = r THEN pr ELSE [pr EXCEPT ![r] = ProbesNone]
  /\ pchan' = [pchan EXCEPT ![r] = ChansNone]
  /\ cancel_slot' = [cancel_slot EXCEPT ![r] = 0]
  /\ runset' = IF test_rx = r THEN runset
               ELSE [runset EXCEPT ![r] = SettingsNone]
  /\ cancelled' = IF test_rx = r THEN cancelled
                  ELSE [cancelled EXCEPT ![r] = "no"]

\* variant of OrchRelay that never polls the cancel channel
OrchRelay_NoPoll(r) ==
  LET k == orch[r].k
  IN /\ orch[r].pc = "recv"
     /\ pchan[r][k] # <<>>
     /\ orch' = [orch EXCEPT ![r].pc = "send",
                             ![r].ev = <<Head(pchan[r][k])>>]
     /\ pchan' = [pchan EXCEPT ![r][k] = Tail(@)]
     /\ UNCHANGED <<cancel_slot, probe, runset, cancelled>>
     /\ UNCHANGED <<unit, mainVars, uchan, produced, emitted, delivered>>

\* app.rs 289-293: recv() yields a progress event; cancel is polled
OrchRelay(r) ==
  LET k == orch[r].k
  IN /\ orch[r].pc = "recv"
     /\ pchan[r][k] # <<>>
     /\ IF cancel_slot[r] > 0
        THEN Return(r, "cancelled", Abort(probe, r, k))
        ELSE /\ orch' = [orch EXCEPT ![r].pc = "send",
                                     ![r].ev = <<Head(pchan[r][k])>>]
             /\ pchan' = [pchan EXCEPT ![r][k] = Tail(@)]
             /\ UNCHANGED <<cancel_slot, probe, runset, cancelled>>
     /\ UNCHANGED <<unit, mainVars, uchan, produced, emitted, delivered>>

\* variant of CanSendUpdate that waits for a receiver to take the event
CanSendUpdate_WaitsForReceiver(r) ==
  UpdateRxAlive(r) /\ Len(uchan[r]) < ChanCap

\* send on the update channel: waits for room unless the receiver is gone
CanSendUpdate(r) == ~UpdateRxAlive(r) \/ Len(uchan[r]) < ChanCap

\* variant of SentUpdate in which all runs send into the channel the consumer
\* holds
SentUpdate_SharedChannel(ch, r, ev) ==
  IF test_rx # None THEN [ch EXCEPT ![test_rx] = Append(@, ev)] ELSE ch

\* the event is queued, and recorded in the history, while a receiver exists
SentUpdate(ch, r, ev) ==
  IF UpdateRxAlive(r) THEN [ch EXCEPT ![r] = Append(@, ev)] ELSE ch

\* app.rs 294: forward the progress event
OrchSend(r) ==
  /\ orch[r].pc = "send"
  /\ CanSendUpdate(r)
  /\ uchan' = SentUpdate(uchan, r, orch[r].ev[1])
  /\ emitted' = SentUpdate(emitted, r, orch[r].ev[1])
  /\ orch' = [orch EXCEPT ![r].pc = "recv", ![r].ev = <<>>]
  /\ UNCHANGED <<unit, mainVars, probe, pchan, cancel_slot, runset,
                 produced, delivered, cancelled>>

\* variant of OrchJoin that joins as soon as the probe has ended, whatever
\* is still queued on the progress channel
OrchJoin_Undrained(r) ==
  LET k == orch[r].k
  IN /\ orch[r].pc = "recv"
     /\ ~ProgressTxAlive(r, k)
     /\ IF probe[r][k].st = "finished"
        THEN /\ orch' = [orch EXCEPT ![r].pc = "complete"]
             /\ UNCHANGED <<probe, pchan, cancel_slot, runset, cancelled>>
        ELSE Return(r, "error", probe)
     /\ UNCHANGED <<unit, mainVars, uchan, produced, emitted, delivered>>

\* variant of OrchJoin that drops the probe's error and goes on to the next
\* phase
OrchJoin_IgnoresError(r) ==
  LET k == orch[r].k
  IN /\ orch[r].pc = "recv"
     /\ pchan[r][k] = <<>>
     /\ ~ProgressTxAlive(r, k)
     /\ IF probe[r][k].st = "finished"
        THEN /\ orch' = [orch EXCEPT ![r].pc = "complete"]
             /\ UNCHANGED <<probe, pchan, cancel_slot, runset, cancelled>>
        ELSE IF k = "Upload"
        THEN Return(r, "error", probe)
        ELSE /\ orch' = [orch EXCEPT ![r].k = NextKind(k)]
             /\ probe' = [probe EXCEPT ![r][NextKind(k)] =
                            ProbeNew(NextKind(k), SpawnSize(r, NextKind(k)))]
             /\ UNCHANGED <<pchan, cancel_slot, runset, cancelled>>
     /\ UNCHANGED <<unit, mainVars, uchan, produced, emitted, delivered>>

\* app.rs 289, 297: recv() yields None, then handle.await??
OrchJoin(r) ==
  LET k == orch[r].k
  IN /\ orch[r].pc = "recv"
     /\ pchan[r][k] = <<>>
     /\ ~ProgressTxAlive(r, k)
     /\ IF probe[r][k].st = "finished"
        THEN /\ orch' = [orch EXCEPT ![r].pc = "complete"]
             /\ UNCHANGED <<probe, pchan, cancel_slot, runset, cancelled>>
        ELSE Return(r, "error", probe)
     /\ UNCHANGED <<unit, mainVars, uchan, produced, emitted, delivered>>

\* app.rs 298-311: send the complete event, then spawn the next probe
\* (after UploadComplete: return Ok)
OrchComplete(r) ==
  LET k == orch[r].k
      ev == CompleteEv(k, probe[r][k].res)
      joined == [probe EXCEPT ![r][k] = ProbeEnded("finished", <<>>)]
  IN /\ orch[r].pc = "complete"
     /\ CanSendUpdate(r)
     /\ uchan' = SentUpdate(uchan, r, ev)
     /\ emitted' = SentUpdate(emitted, r, ev)
     /\ IF k = "Upload"
        THEN Return(r, "ok", joined)
        ELSE /\ orch' = [orch EXCEPT ![r].pc = "recv", ![r].k = NextKind(k)]
             /\ probe' = [joined EXCEPT ![r][NextKind(k)] =
                            ProbeNew(NextKind(k), SpawnSize(r, NextKind(k)))]
             /\ UNCHANGED <<pchan, cancel_slot, runset, cancelled>>
     /\ UNCHANGED <<unit, mainVars, produced, delivered>>

\* --------------------------------------------------------------- probes
At(r, k, pc) == probe[r][k].st = "running" /\ probe[r][k].pc = pc

\* reqwest::Client::builder()...build()? fails: the task ends with Err before
\* its first request
ProbeBuildFail(r, k) ==
  /\ At(r, k, FirstPc(k))
  /\ probe[r][k].i = 0
  /\ probe' = [probe EXCEPT ![r][k] = ProbeEnded("failed", <<>>)]
  /\ UNCHANGED <<unit, mainVars, orch, pchan, uchan, cancel_slot, runset, histVars>>

\* variant of CanSendProgress for a channel without a capacity
CanSendProgress_Unbounded(r, k) == TRUE

\* send on a progress channel
CanSendProgress(r, k) == ~ProgressRxAlive(r) \/ Len(pchan[r][k]) < ChanCap

SendProgress(r, k, ev) ==
  /\ pchan' = IF ProgressRxAlive(r)
              THEN [pchan EXCEPT ![r][k] = Append(@, ev)] ELSE pchan
  /\ produced' = IF ProgressRxAlive(r) /\ test_rx = r
                 THEN [produced EXCEPT ![r][k] = Append(@, ev)] ELSE produced

\* variant of PingAttempt in which a failed round trip ends the probe with
\* an error
PingAttempt_FailureFatal(r, ok) ==
  LET p == probe[r]["Ping"]
  IN /\ At(r, "Ping", "attempt")
     /\ p.i < p.size
     /\ probe' = [probe EXCEPT ![r]["Ping"] =
                    IF ok
                    THEN [p EXCEPT !.i = p.i + 1, !.pc = "send",
                                   !.samples = Append(@, Rtt(p.i + 1))]
                    ELSE ProbeEnded("failed", <<>>)]
     /\ UNCHANGED <<unit, mainVars, orch, pchan, uchan, cancel_slot, runset,
                    histVars>>

\* ping.rs 27-32: one round trip
PingAttempt(r, ok) ==
  LET p == probe[r]["Ping"]
  IN /\ At(r, "Ping", "attempt")
     /\ p.i < p.size
     /\ probe' = [probe EXCEPT ![r]["Ping"] =
                    [p EXCEPT !.i = p.i + 1, !.pc = "send",
                              !.samples = IF ok THEN Append(@, Rtt(p.i + 1))
                                          ELSE @]]
     /\ UNCHANGED <<unit, mainVars, orch, pchan, uchan, cancel_slot, runset,
                    histVars>>

\* ping.rs 34-40: emit the progress event, then sleep
PingSend(r) ==
  LET p == probe[r]["Ping"]
      latest == IF p.samples = <<>> THEN <<>> ELSE <<Last(p.samples)>>
  IN /\ At(r, "Ping", "send")
     /\ CanSendProgress(r, "Ping")
     /\ SendProgress(r, "Ping", PingProgressEv(latest))
     /\ probe' = [probe EXCEPT ![r]["Ping"].pc = "attempt"]
     /\ UNCHANGED <<unit, mainVars, orch, uchan, cancel_slot, runset,
                    emitted, delivered, cancelled>>

\* ping.rs 43: the loop is over
PingFinish(r) ==
  LET p == probe[r]["Ping"]
  IN /\ At(r, "Ping", "attempt")
     /\ p.i = p.size
     /\ probe' = [probe EXCEPT ![r]["Ping"] =
                    ProbeEnded("finished", calculate_result(p.samples))]
     /\ UNCHANGED <<unit, mainVars, orch, pchan, uchan, cancel_slot, runset,
                    histVars>>

\* download.rs 43-54 / upload.rs 44-55: the interval sampling after a chunk
\* (every is the sampling interval, 100 ms in the code)
SampledEvery(every, p, bytes, now) ==
  LET interval == now - p.last_update
  IN IF interval >= every
     THEN [p EXCEPT !.bytes = bytes, !.now = now, !.pc = "send",
                    !.samples = PushSample(@, Mbps(bytes - p.last_bytes,
                                                   interval))]
     ELSE [p EXCEPT !.bytes = bytes, !.now = now]

Sampled(p, bytes, now) == SampledEvery(SAMPLE_INTERVAL_MS, p, bytes, now)

\* variant of Anchored that moves the time anchor only
Anchored_KeepsBytes(p, pc) == [p EXCEPT !.pc = pc, !.last_update = p.now]

\* download.rs 64-65 / upload.rs 65-66: the interval anchors move
Anchored(p, pc) ==
  [p EXCEPT !.pc = pc, !.last_update = p.now, !.last_bytes = p.bytes]

\* variant of DownloadResult that averages the interval samples
DownloadResult_MeanOfSamples(p, now) ==
  [avg_speed_mbps |-> IF p.samples = <<>> THEN Mbps(p.bytes, now)
                      ELSE SumSeq(p.samples) \div Len(p.samples)]

\* download.rs 69-72: bytes read over the time since the start
DownloadResult(p, now) == [avg_speed_mbps |-> Mbps(p.bytes, now)]

\* upload.rs 70-73: declared size over the time since the start
UploadResult(p) == [avg_speed_mbps |-> Mbps(p.size, p.now)]

\* sizes of the chunks a response stream delivers
DownloadChunkLens == {500000}

\* download.rs 27-30: the GET request and its content length
DownloadRequest(r, ok, cl) ==
  LET p == probe[r]["Download"]
  IN /\ At(r, "Download", "request")
     /\ probe' = IF ok
                 THEN [probe EXCEPT ![r]["Download"].pc = "stream",
                                    ![r]["Download"].total =
                                       IF cl = None THEN p.size ELSE cl]
                 ELSE [probe EXCEPT ![r]["Download"] =
                         ProbeEnded("failed", <<>>)]
     /\ UNCHANGED <<unit, mainVars, orch, pchan, uchan, cancel_slot, runset,
                    histVars>>

\* download.rs 39-54: the stream yields a chunk
DownloadChunk(r, dt, len) ==
  LET p == probe[r]["Download"]
  IN /\ At(r, "Download", "stream")
     /\ p.i < MaxChunks
     /\ probe' = [probe EXCEPT ![r]["Download"] =
                    Sampled([p EXCEPT !.i = p.i + 1], p.bytes + len, p.now + dt)]
     /\ UNCHANGED <<unit, mainVars, orch, pchan, uchan, cancel_slot, runset,
                    histVars>>

\* download.rs 39-40: the stream yields an error
DownloadChunkErr(r) ==
  /\ At(r, "Download", "stream")
  /\ probe' = [probe EXCEPT ![r]["Download"] = ProbeEnded("failed", <<>>)]
  /\ UNCHANGED <<unit, mainVars, orch, pchan, uchan, cancel_slot, runset, histVars>>

\* download.rs 56-66: emit the progress event and move the interval anchor
DownloadSend(r) ==
  LET p == probe[r]["Download"]
  IN /\ At(r, "Download", "send")
     /\ CanSendProgress(r, "Download")
     /\ SendProgress(r, "Download",
                     DownloadProgressEv(p.bytes, p.total, p.samples))
     /\ probe' = [probe EXCEPT ![r]["Download"] = Anchored(p, "stream")]
     /\ UNCHANGED <<unit, mainVars, orch, uchan, cancel_slot, runset,
                    emitted, delivered, cancelled>>

\* download.rs 39, 69-72: the stream ends
DownloadEnd(r, dt) ==
  LET p == probe[r]["Download"]
  IN /\ At(r, "Download", "stream")
     /\ probe' = [probe EXCEPT ![r]["Download"] =
                    ProbeEnded("finished", DownloadResult(p, p.now + dt))]
     /\ UNCHANGED <<unit, mainVars, orch, pchan, uchan, cancel_slot, runset,
                    histVars>>

\* variant of UploadPost that always counts a whole CHUNK_SIZE
UploadPost_WholeChunks(r, dt, ok) ==
  LET p == probe[r]["Upload"]
  IN /\ At(r, "Upload", "post")
     /\ p.bytes < p.size
     /\ probe' = [probe EXCEPT ![r]["Upload"] =
                    Sampled([p EXCEPT !.i = p.i + 1], p.bytes + CHUNK_SIZE,
                            p.now + dt)]
     /\ UNCHANGED <<unit, mainVars, orch, pchan, uchan, cancel_slot, runset,
                    histVars>>

\* variant of UploadPost in which a failed POST ends the probe with an error
UploadPost_FailureFatal(r, dt, ok) ==
  LET p == probe[r]["Upload"]
      len == Min(CHUNK_SIZE, p.size - p.bytes)
  IN /\ At(r, "Upload", "post")
     /\ p.bytes < p.size
     /\ probe' = [probe EXCEPT ![r]["Upload"] =
                    IF ok
                    THEN Sampled([p EXCEPT !.i = p.i + 1], p.bytes + len,
                                 p.now + dt)
                    ELSE ProbeEnded("failed", <<>>)]
     /\ UNCHANGED <<unit, mainVars, orch, pchan, uchan, cancel_slot, runset,
                    histVars>>

\* upload.rs 40-55: one POST of the next chunk; its outcome is ignored
UploadPost(r, dt, ok) ==
  LET p == probe[r]["Upload"]
      len == Min(CHUNK_SIZE, p.size - p.bytes)
  IN /\ At(r, "Upload", "post")
     /\ p.bytes < p.size
     /\ probe' = [probe EXCEPT ![r]["Upload"] =
                    Sampled([p EXCEPT !.i = p.i + 1], p.bytes + len, p.now + dt)]
     /\ UNCHANGED <<unit, mainVars, orch, pchan, uchan, cancel_slot, runset,
                    histVars>>

\* upload.rs 57-67
UploadSend(r) ==
  LET p == probe[r]["Upload"]
  IN /\ At(r, "Upload", "send")
     /\ CanSendProgress(r, "Upload")
     /\ SendProgress(r, "Upload", UploadProgressEv(p.bytes, p.size, p.samples))
     /\ probe' = [probe EXCEPT ![r]["Upload"] = Anchored(p, "post")]
     /\ UNCHANGED <<unit, mainVars, orch, uchan, cancel_slot, runset,
                    emitted, delivered, cancelled>>

\* upload.rs 40, 70-73
UploadFinish(r) ==
  LET p == probe[r]["Upload"]
  IN /\ At(r, "Upload", "post")
     /\ p.bytes = p.size
     /\ probe' = [probe EXCEPT ![r]["Upload"] =
                    ProbeEnded("finished", UploadResult(p))]
     /\ UNCHANGED <<unit, mainVars, orch, pchan, uchan, cancel_slot, runset,
                    histVars>>

Next ==
  \/ LoopRecv
  \/ \E k \in Keys \cup {"none"} : LoopInput(k)
  \/ \E r \in Runs : OrchBegin(r)
  \/ \E r \in Runs : OrchRelay(r)
  \/ \E r \in Runs : OrchSend(r)
  \/ \E r \in Runs : OrchJoin(r)
  \/ \E r \in Runs : OrchComplete(r)
  \/ \E r \in Runs, k \in KindSet : ProbeBuildFail(r, k)
  \/ \E r \in Runs, ok \in BOOLEAN : PingAttempt(r, ok)
  \/ \E r \in Runs : PingSend(r)
  \/ \E r \in Runs : PingFinish(r)
  \/ \E r \in Runs, ok \in BOOLEAN :
       \E cl \in {None, probe[r]["Download"].size} : DownloadRequest(r, ok, cl)
  \/ \E r \in Runs, dt \in Dts, len \in DownloadChunkLens :
       DownloadChunk(r, dt, len)
  \/ \E r \in Runs : DownloadChunkErr(r)
  \/ \E r \in Runs : DownloadSend(r)
  \/ \E r \in Runs, dt \in Dts : DownloadEnd(r, dt)
  \/ \E r \in Runs, dt \in Dts, ok \in BOOLEAN : UploadPost(r, dt, ok)
  \/ \E r \in Runs : UploadSend(r)
  \/ \E r \in Runs : UploadFinish(r)

Spec == Init /\ [][Next]_vars

\* ===================================================================
\* Components run on their own: the sample windows, the latency result,
\* the settings editor
\* ===================================================================
MaxPushes == 202    \* values pushed into one sample window
MaxSamples == 3     \* latency samples given to calculate_result
MaxTwinChunks == 4  \* chunks of one throughput probe execution

\* upload_size given to UploadTest::new, in bytes
UploadSizes == {500000, 1000000, 2500000, 4000000}

\* lengths of the chunks of these uploads
UploadChunkLens == {500000, CHUNK_SIZE}

\* wall-clock time one network operation may take, in ms
ProbeDts == {50, 100}

\* sizes of the chunks a response stream delivers
ProbeChunkLens == {250000, 500000}

\* round-trip times given to calculate_result, in ms
SampleValues == {10, 15, 20, 30}

DefaultSettings ==
  [ping_count |-> 30, download_size_mb |-> 100, upload_size_mb |-> 50]

progVars == <<app, test_rx, pc_main, key, orch, probe, pchan, uchan,
              cancel_slot, runset, produced, emitted, delivered, cancelled>>

SeqsUpTo(S, n) == UNION {[1..m -> S] : m \in 0..n}

\* the windows are empty; the i-th value pushed into a window is i
WindowStart ==
  [mode |-> "window", speed |-> <<>>, n |-> 0,
   app |-> AppNew(DefaultSettings), m |-> 0]

CalcStarts ==
  {[mode |-> "calc", samples |-> x, res |-> <<>>] :
     x \in SeqsUpTo(SampleValues, MaxSamples)}

\* the settings view is open on the default settings
SettingsStart ==
  [mode |-> "settings",
   app |-> [AppNew(DefaultSettings) EXCEPT !.view = "Settings"]]

\* sampling intervals of the second of two executions, in ms
TwinIntervals == {50, 200}

\* two executions of a throughput probe on the same chunks and arrival
\* times, the first sampling every 100 ms, the second at another interval
TwinStarts ==
  {[mode |-> "twin", kind |-> "Download", every |-> <<SAMPLE_INTERVAL_MS, e>>,
    p |-> <<ProbeNew("Download", 1000000), ProbeNew("Download", 1000000)>>,
    events |-> <<0, 0>>, res |-> <<>>] : e \in TwinIntervals}
  \cup
  {[mode |-> "twin", kind |-> "Upload", every |-> <<SAMPLE_INTERVAL_MS, e>>,
    p |-> <<ProbeNew("Upload", z), ProbeNew("Upload", z)>>,
    events |-> <<0, 0>>, res |-> <<>>] : e \in TwinIntervals, z \in UploadSizes}

UnitInit ==
  /\ ProgramInit
  /\ unit \in {WindowStart, SettingsStart} \cup CalcStarts \cup TwinStarts

\* download.rs 49-54, upload.rs 50-55: a throughput sample is pushed
WindowPushSpeed ==
  /\ unit.mode = "window"
  /\ unit.n < MaxPushes
  /\ unit' = [unit EXCEPT !.n = @ + 1,
                          !.speed = PushSample(@, unit.n + 1)]
  /\ UNCHANGED progVars

\* app.rs 224-232: the consumer applies a latency progress event
WindowPushPing(has) ==
  /\ unit.mode = "window"
  /\ unit.m < MaxPushes
  /\ unit' = IF has
             THEN [unit EXCEPT
                     !.m = @ + 1,
                     !.app = update_ping_progress(
                               @, PingProgressEv(<<unit.m + 1>>))]
             ELSE [unit EXCEPT
                     !.app = update_ping_progress(@, PingProgressEv(<<>>))]
  /\ UNCHANGED progVars

\* ping.rs 43: the result of the recorded samples
CalcResult ==
  /\ unit.mode = "calc"
  /\ unit.res = <<>>
  /\ unit' = [unit EXCEPT !.res = <<calculate_result(unit.samples)>>]
  /\ UNCHANGED progVars

SettingsKeys == {"Up", "Down", "Left", "Right"}

\* app.rs 155-183: a key pressed in the settings view
SettingsKey(k) ==
  /\ unit.mode = "settings"
  /\ unit' = [unit EXCEPT !.app = handle_key_event(@, k).app]
  /\ UNCHANGED progVars

\* one loop iteration of the probe: the chunk, and the progress event if the
\* interval has passed
TwinStep(every, p, len, dt) ==
  LET q == SampledEvery(every, [p EXCEPT !.i = p.i + 1], p.bytes + len,
                        p.now + dt)
  IN IF q.pc = "send" THEN [p |-> Anchored(q, p.pc), sent |-> 1]
     ELSE [p |-> q, sent |-> 0]

\* download.rs 39-66, upload.rs 40-67: both executions take the same chunk
TwinChunk(dt, len) ==
  LET a == TwinStep(unit.every[1], unit.p[1], len, dt)
      b == TwinStep(unit.every[2], unit.p[2], len, dt)
  IN /\ unit.mode = "twin"
     /\ unit.res = <<>>
     /\ unit.p[1].i < MaxTwinChunks
     /\ unit.kind = "Upload" =>
          /\ unit.p[1].bytes < unit.p[1].size
          /\ len = Min(CHUNK_SIZE, unit.p[1].size - unit.p[1].bytes)
     /\ unit' = [unit EXCEPT
                   !.p = <<a.p, b.p>>,
                   !.events = <<@[1] + a.sent, @[2] + b.sent>>]
     /\ UNCHANGED progVars

\* download.rs 69-72, upload.rs 70-73: both executions end
TwinEnd(dt) ==
  /\ unit.mode = "twin"
  /\ unit.res = <<>>
  /\ unit.kind = "Upload" =>
       (unit.p[1].bytes = unit.p[1].size /\ dt = 0)
  /\ unit.kind = "Download" => dt > 0
  /\ unit' = [unit EXCEPT !.res =
                IF unit.kind = "Download"
                THEN <<DownloadResult(unit.p[1], unit.p[1].now + dt),
                       DownloadResult(unit.p[2], unit.p[2].now + dt)>>
                ELSE <<UploadResult(unit.p[1]), UploadResult(unit.p[2])>>]
  /\ UNCHANGED progVars

UnitNext ==
  \/ \E dt \in ProbeDts, len \in ProbeChunkLens \cup UploadChunkLens :
       TwinChunk(dt, len)
  \/ \E dt \in ProbeDts \cup {0} : TwinEnd(dt)
  \/ WindowPushSpeed
  \/ \E has \in BOOLEAN : WindowPushPing(has)
  \/ CalcResult
  \/ \E k \in SettingsKeys : SettingsKey(k)

UnitSpec == UnitInit /\ [][UnitNext]_vars

\* ===================================================================
\* One probe with its relay: a run that is in the phase of the probe, with
\* no key pressed until it ends
\* ===================================================================
MaxProbePings == 3   \* ping_count given to the latency probe

ProbeSettings ==
  [ping_count : 0..MaxProbePings, download_size_mb : {1},
   upload_size_mb : {2}]

\* Content-Length values of the download response that differ from the
\* requested size
ContentLengths == {750000}

Before(k) ==
  CASE k = "Ping" -> {} [] k = "Download" -> {"Ping"}
    [] k = "Upload" -> {"Ping", "Download"}

\* the complete events of the phases before k, none of which measured
\* anything
PriorEvents(k) ==
  CASE k = "Ping" -> <<>>
    [] k = "Download" -> <<PingCompleteEv(calculate_result(<<>>))>>
    [] k = "Upload" -> <<PingCompleteEv(calculate_result(<<>>)),
                         DownloadCompleteEv([avg_speed_mbps |-> 0])>>

RECURSIVE Applied(_, _)
Applied(a, evs) ==
  IF evs = <<>> THEN a ELSE Applied(handle_update(a, Head(evs)), Tail(evs))

\* run 1 has reached phase k and has just spawned its probe
ProbeInit ==
  \E s \in ProbeSettings, k \in KindSet :
    \E size \in IF k = "Upload" THEN UploadSizes ELSE {ProbeSize(k, s)} :
      /\ app = Applied(set_cancel_tx([AppNew(s) EXCEPT !.phase = "Ping"], 1),
                       PriorEvents(k))
      /\ test_rx = 1
      /\ pc_main = "recv"
      /\ key = "none"
      /\ orch = [r \in Runs |->
                   IF r = 1 THEN [OrchNone EXCEPT !.pc = "recv", !.k = k]
                   ELSE OrchNone]
      /\ probe = [r \in Runs |->
                    IF r = 1
                    THEN [j \in KindSet |->
                            IF j = k THEN ProbeNew(k, size)
                            ELSE IF j \in Before(k)
                            THEN ProbeEnded("finished", <<>>)
                            ELSE ProbeNone]
                    ELSE ProbesNone]
      /\ pchan = [r \in Runs |-> ChansNone]
      /\ uchan = [r \in Runs |-> <<>>]
      /\ cancel_slot = [r \in Runs |-> 0]
      /\ runset = [r \in Runs |-> IF r = 1 THEN s ELSE SettingsNone]
      /\ produced = [r \in Runs |-> ChansNone]
      /\ emitted = [r \in Runs |-> IF r = 1 THEN PriorEvents(k) ELSE <<>>]
      /\ delivered = [r \in Runs |-> IF r = 1 THEN PriorEvents(k) ELSE <<>>]
      /\ cancelled = [r \in Runs |-> "no"]
      /\ unit = UnitNone

ProbeNext ==
  \/ LoopRecv
  \/ LoopInput("none")
  \/ OrchRelay(1)
  \/ OrchSend(1)
  \/ OrchJoin(1)
  \/ OrchComplete(1)
  \/ \E k \in KindSet : ProbeBuildFail(1, k)
  \/ \E ok \in BOOLEAN : PingAttempt(1, ok)
  \/ PingSend(1)
  \/ PingFinish(1)
  \/ \E ok \in BOOLEAN :
       \E cl \in {None, probe[1]["Download"].size} \cup ContentLengths :
         DownloadRequest(1, ok, cl)
  \/ \E dt \in ProbeDts, len \in ProbeChunkLens : DownloadChunk(1, dt, len)
  \/ DownloadChunkErr(1)
  \/ DownloadSend(1)
  \/ \E dt \in ProbeDts : DownloadEnd(1, dt)
  \/ \E dt \in ProbeDts, ok \in BOOLEAN : UploadPost(1, dt, ok)
  \/ UploadSend(1)
  \/ UploadFinish(1)

ProbeSpec == ProbeInit /\ [][ProbeNext]_vars

\* ===================================================================
\* The whole program with a user who also changes the settings: one run at
\* a time is started, from the initial settings, and one value is changed.
EditKeys == Keys \cup SettingsKeys \cup {"Space"}

\* the keys the user presses in this specification
Offered(k) ==
  /\ (k # "none" /\ handle_key_event(app, k).action = "StartTest") =>
       /\ app.settings \in SettingsDomain
       /\ \A r \in Runs : orch[r].pc = "unborn"
  /\ k \in {"Left", "Right"} => app.settings \in SettingsDomain

EditNext ==
  \/ LoopRecv
  \/ \E k \in EditKeys \cup {"none"} : Offered(k) /\ LoopInput(k)
  \/ \E r \in Runs : OrchBegin(r)
  \/ \E r \in Runs : OrchRelay(r)
  \/ \E r \in Runs : OrchSend(r)
  \/ \E r \in Runs : OrchJoin(r)
  \/ \E r \in Runs : OrchComplete(r)
  \/ \E r \in Runs, k \in KindSet : ProbeBuildFail(r, k)
  \/ \E r \in Runs, ok \in BOOLEAN : PingAttempt(r, ok)
  \/ \E r \in Runs : PingSend(r)
  \/ \E r \in Runs : PingFinish(r)
  \/ \E r \in Runs, ok \in BOOLEAN :
       \E cl \in {None, probe[r]["Download"].size} : DownloadRequest(r, ok, cl)
  \/ \E r \in Runs, dt \in Dts, len \in DownloadChunkLens :
       DownloadChunk(r, dt, len)
  \/ \E r \in Runs : DownloadChunkErr(r)
  \/ \E r \in Runs : DownloadSend(r)
  \/ \E r \in Runs, dt \in Dts : DownloadEnd(r, dt)
  \/ \E r \in Runs, dt \in Dts, ok \in BOOLEAN : UploadPost(r, dt, ok)
  \/ \E r \in Runs : UploadSend(r)
  \/ \E r \in Runs : UploadFinish(r)

EditSpec == Init /\ [][EditNext]_vars

\* ===================================================================
\* The whole program under fair scheduling: the main loop keeps iterating,
\* every spawned task is scheduled again and again, and every network
\* operation returns. The user presses Enter and Esc, and starts a run only
\* when no task of an earlier run is left.
LiveKeys == {"Enter", "Esc"}

\* wall-clock time one network operation may take, in ms
LiveDts == {100}

\* one step of run_app's loop
MainStep ==
  \/ LoopRecv
  \/ \E k \in LiveKeys \cup {"none"} : Offered(k) /\ LoopInput(k)

\* one step of the run_speed_test task of run r
OrchStep(r) ==
  \/ OrchBegin(r)
  \/ OrchRelay(r)
  \/ OrchSend(r)
  \/ OrchJoin(r)
  \/ OrchComplete(r)

\* one step of the probe task of run r
ProbeStep(r) ==
  \/ \E k \in KindSet : ProbeBuildFail(r, k)
  \/ \E ok \in BOOLEAN : PingAttempt(r, ok)
  \/ PingSend(r)
  \/ PingFinish(r)
  \/ \E ok \in BOOLEAN :
       \E cl \in {None, probe[r]["Download"].size} : DownloadRequest(r, ok, cl)
  \/ \E dt \in LiveDts, len \in DownloadChunkLens : DownloadChunk(r, dt, len)
  \/ DownloadChunkErr(r)
  \/ DownloadSend(r)
  \/ \E dt \in LiveDts : DownloadEnd(r, dt)
  \/ \E dt \in LiveDts, ok \in BOOLEAN : UploadPost(r, dt, ok)
  \/ UploadSend(r)
  \/ UploadFinish(r)

LiveNext ==
  \/ MainStep
  \/ \E r \in Runs : OrchStep(r)
  \/ \E r \in Runs : ProbeStep(r)

Fairness ==
  /\ WF_vars(MainStep)
  /\ \A r \in Runs : WF_vars(OrchStep(r)) /\ WF_vars(ProbeStep(r))

LiveSpec == Init /\ [][LiveNext]_vars /\ Fairness

\* ===================================================================
\* Properties
\* ===================================================================
Running == {"Ping", "Download", "Upload"}

\* position of an event kind in a run
Stage(kind) ==
  CASE kind = "PingProgress" -> 1 [] kind = "PingComplete" -> 2
    [] kind = "DownloadProgress" -> 3 [] kind = "DownloadComplete" -> 4
    [] kind = "UploadProgress" -> 5 [] kind = "UploadComplete" -> 6

\* the stages that may directly follow stage a (0: nothing received yet)
Follows(a) ==
  CASE a = 0 -> {1, 2} [] a = 1 -> {1, 2} [] a = 2 -> {3, 4}
    [] a = 3 -> {3, 4} [] a = 4 -> {5, 6} [] a = 5 -> {5, 6} [] a = 6 -> {}

\* s is a prefix of  PingProgress* PingComplete DownloadProgress*
\* DownloadComplete UploadProgress* UploadComplete
PhaseOrdered(s) ==
  \A i \in 1..Len(s) :
    Stage(s[i].kind) \in Follows(IF i = 1 THEN 0 ELSE Stage(s[i - 1].kind))

FullRun(s) == PhaseOrdered(s) /\ s # <<>> /\ Stage(Last(s).kind) = 6

HasKind(s, kind) == \E i \in 1..Len(s) : s[i].kind = kind

OfKind(s, kind) == SelectSeq(s, LAMBDA e : e.kind = kind)

IsPrefix(s, t) == Len(s) <= Len(t) /\ \A i \in 1..Len(s) : s[i] = t[i]

\* the RunResult that the complete events in s write
ResultFrom(s) ==
  LET pc == OfKind(s, "PingComplete")
      dc == OfKind(s, "DownloadComplete")
      uc == OfKind(s, "UploadComplete")
  IN [ping_ms |-> IF pc = <<>> THEN 0 ELSE Last(pc).avg_ms,
      jitter_ms |-> IF pc = <<>> THEN 0 ELSE Last(pc).jitter_ms,
      download_mbps |-> IF dc = <<>> THEN 0 ELSE Last(dc).speed_mbps,
      upload_mbps |-> IF uc = <<>> THEN 0 ELSE Last(uc).speed_mbps]

\* the run has ended without cancel or error and the consumer has drained it
Completed(r) ==
  orch[r].pc = "returned" /\ orch[r].outcome = "ok" /\ uchan[r] = <<>>

\* C1: for a run that is neither cancelled nor aborted by an error, the events
\* the consumer receives form PingProgress* PingComplete DownloadProgress*
\* DownloadComplete UploadProgress* UploadComplete: at every moment a prefix
\* of that pattern, and the whole pattern once the run has completed.
C1_PhaseSequence ==
  \A r \in Runs :
    /\ PhaseOrdered(delivered[r])
    /\ Completed(r) => FullRun(delivered[r])

C1_Witness ==
  \E r \in Runs :
    /\ Completed(r)
    /\ FullRun(delivered[r])
    /\ HasKind(delivered[r], "PingProgress")
    /\ HasKind(delivered[r], "DownloadProgress")
    /\ HasKind(delivered[r], "UploadProgress")

CancelIssued ==
  /\ pc_main = "input" /\ key' = "Esc"
  /\ app.view = "Main" /\ ~app.expanded /\ app.phase \in Running

\* C3: a cancel issued while the phase is Ping, Download or Upload leaves the
\* phase Idle and RunResult exactly as the applied complete events wrote it;
\* afterwards, until a new start, nothing changes the phase or RunResult, and
\* the consumer is never again attached to a cancelled run, whose queued
\* events are gone.
C3_CancelKeepsResults ==
  [][/\ CancelIssued =>
          /\ app'.phase = "Idle"
          /\ app'.result = app.result
          /\ test_rx # None => app'.result = ResultFrom(delivered[test_rx])
          /\ test_rx' = None
     /\ (test_rx = None /\ test_rx' = None) =>
          (app'.phase = app.phase /\ app'.result = app.result)
     /\ \A r \in Runs : cancelled'[r] # "no" =>
          (test_rx' # r /\ uchan'[r] = <<>>)]_vars

C3_Witness ==
  /\ pc_main = "recv" /\ key = "Esc"
  /\ app.phase = "Idle" /\ test_rx = None
  /\ app.result.ping_ms > 0 /\ app.result.download_mbps = 0
  /\ app.result.upload_mbps = 0
  /\ \E r \in Runs : cancelled[r] = "inflight" /\ orch[r].k = "Download"

\* C4 (as claimed): once a cancel signal has been issued while a probe of the
\* run was in flight, the orchestrator of that run spawns no further probe.
C4_NoSpawnAfterCancel ==
  [][\A r \in Runs : cancelled[r] = "inflight" =>
        \A k \in KindSet :
          probe[r][k].st = "unspawned" => probe'[r][k].st = "unspawned"]_vars

PhaseSteps ==
  {<<"Idle", "Ping">>, <<"Ping", "Download">>, <<"Download", "Upload">>,
   <<"Upload", "Complete">>, <<"Ping", "Idle">>, <<"Download", "Idle">>,
   <<"Upload", "Idle">>, <<"Complete", "Ping">>}

\* C5 (as claimed): the phase changes only along Idle, Ping, Download, Upload,
\* Complete, back to Idle on cancel, or to Ping on a new start; Complete is
\* entered only from Upload with the upload result recorded.
C5_PhaseSteps ==
  [][app'.phase # app.phase =>
       /\ <<app.phase, app'.phase>> \in PhaseSteps
       /\ app'.phase = "Complete" =>
            (test_rx # None /\ uchan[test_rx] # <<>>
             /\ Head(uchan[test_rx]).kind = "UploadComplete"
             /\ app'.result.upload_mbps = Head(uchan[test_rx]).speed_mbps)]_vars

\* kinds that come after k in a run
Later(k) ==
  CASE k = "Ping" -> {"Download", "Upload"} [] k = "Download" -> {"Upload"}
    [] k = "Upload" -> {}

\* C6: when a probe ends with an error it has no result, and the orchestrator
\* ends the run there: no complete event of that phase is sent, no probe of a
\* later phase is spawned, and nothing of a later phase is sent.
C6_ErrorAborts ==
  \A r \in Runs : \A k \in KindSet :
    probe[r][k].st = "failed" =>
      /\ probe[r][k].res = <<>>
      /\ ~HasKind(emitted[r], CompleteKind(k))
      /\ \A k2 \in Later(k) : probe[r][k2].st = "unspawned"
      /\ \A i \in 1..Len(emitted[r]) :
           Stage(emitted[r][i].kind) <= Stage(ProgressKind(k))
      /\ orch[r].pc \in {"recv", "send", "returned"}
      /\ orch[r].pc = "returned" => orch[r].outcome = "error"

C6_Witness ==
  \E r \in Runs :
    /\ probe[r]["Download"].st = "failed"
    /\ orch[r].pc = "returned" /\ orch[r].outcome = "error"
    /\ HasKind(emitted[r], "DownloadProgress")

\* C7 (as claimed): when the consumer finds the update channel of a run that
\* was aborted by a probe error disconnected, the phase returns to Idle.
C7_ErrorReturnsToIdle ==
  [][(/\ pc_main = "recv" /\ pc_main' = "input"
      /\ test_rx # None /\ test_rx' = None
      /\ orch[test_rx].outcome = "error")
     => app'.phase = "Idle"]_vars

\* C8 (as claimed): at most one probe task is running at any time.
C8_OneProbe == Cardinality(RunningProbes) <= 1

\* the key just polled makes handle_key_event return StartTest
StartIssued ==
  /\ pc_main = "input" /\ key' = "Enter"
  /\ app.view = "Main" /\ ~app.expanded /\ app.phase \in {"Idle", "Complete"}

\* C9: every accepted start leaves RunResult zero, both progress values 0,
\* the three sample buffers empty and the phase Ping, and attaches the
\* consumer to a fresh update channel.
C9_StartIsClean ==
  [][StartIssued =>
       /\ app'.phase = "Ping"
       /\ app'.result = DefaultResult
       /\ app'.download_progress = 0 /\ app'.upload_progress = 0
       /\ app'.download_samples = <<>> /\ app'.upload_samples = <<>>
       /\ app'.ping_samples = <<>>
       /\ test_rx' # None
       /\ uchan'[test_rx'] = <<>>]_vars

C9_Witness ==
  /\ pc_main = "recv" /\ key = "Enter"
  /\ app.phase = "Ping" /\ test_rx # None
  /\ app.result = DefaultResult /\ app.ping_samples = <<>>
  /\ \E r \in Runs : r # test_rx /\ cancelled[r] = "inflight"
                     /\ orch[r].k = "Download"

\* C10: Esc while the phase is Idle or Complete changes neither the phase,
\* RunResult, the sample buffers nor the progress values, and sends no cancel
\* signal.
C10_EscIdleNoop ==
  [][(pc_main = "input" /\ key' = "Esc" /\ app.phase \in {"Idle", "Complete"})
     => /\ app'.phase = app.phase
        /\ app'.result = app.result
        /\ app'.download_progress = app.download_progress
        /\ app'.upload_progress = app.upload_progress
        /\ app'.download_samples = app.download_samples
        /\ app'.upload_samples = app.upload_samples
        /\ app'.ping_samples = app.ping_samples
        /\ cancel_slot' = cancel_slot
        /\ test_rx' = test_rx]_vars

C10_Witness ==
  /\ pc_main = "recv" /\ key = "Esc"
  /\ app.phase = "Complete" /\ app.view = "Main"
  /\ app.result.upload_mbps > 0 /\ app.cancel_tx # None

\* the last Min(n, c) of the values 1..n, in order
LastPushed(n, c) == [i \in 1..Min(n, c) |-> n - Min(n, c) + i]

\* C11: after N pushes a sample window of capacity C holds the min(N, C)
\* most recently pushed values in push order, so its length is min(N, C) and
\* never exceeds C: the throughput window (C = 200) and the consumer's
\* latency window (C = 100).
C11_WindowKeepsLatest ==
  unit.mode = "window" =>
    /\ unit.speed = LastPushed(unit.n, SPEED_WINDOW)
    /\ Len(unit.speed) = Min(unit.n, SPEED_WINDOW)
    /\ unit.app.ping_samples = LastPushed(unit.m, PING_WINDOW)
    /\ Len(unit.app.ping_samples) = Min(unit.m, PING_WINDOW)

C11_Witness ==
  /\ unit.mode = "window"
  /\ unit.n > SPEED_WINDOW + 1 /\ Len(unit.speed) = SPEED_WINDOW
  /\ unit.m > PING_WINDOW + 1 /\ Len(unit.app.ping_samples) = PING_WINDOW
  /\ Head(unit.speed) = 3

\* n * n times the sum of the squared deviations of the samples from their
\* mean: the sum of (n * xi - sum)^2, exact in integers
ScaledSqDev(x) ==
  LET n == Len(x)
      t == SumSeq(x)
  IN SumSeq([i \in 1..n |-> (n * x[i] - t) * (n * x[i] - t)])

\* C12: the latency result of samples x1..xn has mean (sum of xi)/n and
\* jitter sqrt(sum of (xi - mean)^2 / (n - 1)) for n >= 2 (in whole
\* milliseconds, rounded down; the jitter is compared where the mean is a
\* whole number), jitter 0 for n = 1, and mean = jitter = 0 for n = 0;
\* [10, 20, 30] gives 20 and 10, [15] gives 15 and 0.
C12_LatencyResult ==
  (unit.mode = "calc" /\ unit.res # <<>>) =>
    LET x == unit.samples
        n == Len(x)
        r == unit.res[1]
    IN /\ n = 0 => (r.avg_ms = 0 /\ r.jitter_ms = 0)
       /\ n = 1 => (r.avg_ms = x[1] /\ r.jitter_ms = 0)
       /\ n >= 1 => (r.avg_ms * n <= SumSeq(x) /\ SumSeq(x) < (r.avg_ms + 1) * n)
       /\ (n >= 2 /\ SumSeq(x) % n = 0) =>
            /\ r.jitter_ms * r.jitter_ms * n * n * (n - 1) <= ScaledSqDev(x)
            /\ ScaledSqDev(x) <
                 (r.jitter_ms + 1) * (r.jitter_ms + 1) * n * n * (n - 1)
       /\ x = <<10, 20, 30>> => (r.avg_ms = 20 /\ r.jitter_ms = 10)
       /\ x = <<15>> => (r.avg_ms = 15 /\ r.jitter_ms = 0)

C12_Witness ==
  /\ unit.mode = "calc"
  /\ unit.samples = <<10, 20, 30>>
  /\ unit.res = <<[avg_ms |-> 20, jitter_ms |-> 10]>>

\* C16: from the defaults (30, 100, 50), whatever keys are pressed in the
\* settings view, the latency count is a multiple of 5 in 5..100, the download
\* size a multiple of 25 in 25..500 and the upload size a multiple of 25 in
\* 25..250; increase at the upper bound and decrease at the lower bound
\* change nothing.
C16_SettingsInRange ==
  unit.mode = "settings" =>
    LET a == unit.app
        t == a.settings
    IN /\ t.ping_count \in 5..100 /\ t.ping_count % 5 = 0
       /\ t.download_size_mb \in 25..500 /\ t.download_size_mb % 25 = 0
       /\ t.upload_size_mb \in 25..250 /\ t.upload_size_mb % 25 = 0
       /\ \A f \in {"PingCount", "DownloadSize", "UploadSize"} :
            LET af == [a EXCEPT !.selected_setting = f]
                v == CASE f = "PingCount" -> t.ping_count
                       [] f = "DownloadSize" -> t.download_size_mb
                       [] f = "UploadSize" -> t.upload_size_mb
                hi == CASE f = "PingCount" -> 100 [] f = "DownloadSize" -> 500
                        [] f = "UploadSize" -> 250
                lo == IF f = "PingCount" THEN 5 ELSE 25
            IN /\ v = hi => increase_setting(af) = af
               /\ v = lo => decrease_setting(af) = af

C16_Witness ==
  /\ unit.mode = "settings"
  /\ unit.app.settings =
       [ping_count |-> 100, download_size_mb |-> 25, upload_size_mb |-> 250]

\* C13 (as claimed): the progress event of the i-th latency attempt carries
\* no value when that attempt failed and the round-trip time of that attempt
\* when it succeeded, never the time of an earlier attempt.
C13_OwnValueOrNone ==
  \A i \in 1..Len(produced[1]["Ping"]) :
    produced[1]["Ping"][i].latest_ping \in {<<>>, <<Rtt(i)>>}

\* C14: a latency probe configured with N makes its attempts one at a time,
\* sends one progress event per attempt made, never ends with an error once
\* it has made an attempt, and returns its result after exactly N attempts
\* and N progress events.
C14_OneEventPerAttempt ==
  [][LET p == probe[1]["Ping"]
         q == probe'[1]["Ping"]
         n == runset[1].ping_count
         sent == Len(produced[1]["Ping"])
     IN p.st = "running" =>
          /\ p.size = n /\ p.i <= n
          /\ sent = IF p.pc = "send" THEN p.i - 1 ELSE p.i
          /\ q.st = "failed" => (p.i = 0 /\ sent = 0)
          /\ q.st = "finished" =>
               (p.i = n /\ sent = n /\ p.pc = "attempt"
                /\ q.res = calculate_result(p.samples))
          /\ (q.st = "running" /\ q.i # p.i) =>
               (q.i = p.i + 1 /\ p.pc = "attempt" /\ q.pc = "send")]_vars

C14_Witness ==
  /\ probe[1]["Ping"].st = "finished"
  /\ probe[1]["Ping"].res # <<>>
  /\ runset[1].ping_count = MaxProbePings
  /\ Len(produced[1]["Ping"]) = MaxProbePings
  /\ \E i \in 1..MaxProbePings : produced[1]["Ping"][i].latest_ping = <<>>

\* C15: RunResult holds completed phases only: it is all zero while the
\* phase is Ping, has zero download and upload results while the phase is
\* Download, and a zero upload result while the phase is Upload; applying a
\* progress event leaves RunResult as it is, and applying the complete event
\* of a phase changes the fields of that phase only.
C15_ResultOfCompletedPhases ==
  /\ app.phase = "Ping" => app.result = DefaultResult
  /\ app.phase = "Download" =>
       (app.result.download_mbps = 0 /\ app.result.upload_mbps = 0)
  /\ app.phase = "Upload" => app.result.upload_mbps = 0
  /\ (test_rx # None /\ uchan[test_rx] # <<>>) =>
       LET ev == Head(uchan[test_rx])
           old == app.result
           new == handle_update(app, ev).result
       IN /\ Stage(ev.kind) \in {1, 3, 5} => new = old
          /\ ev.kind = "PingComplete" =>
               new = [old EXCEPT !.ping_ms = ev.avg_ms,
                                 !.jitter_ms = ev.jitter_ms]
          /\ ev.kind = "DownloadComplete" =>
               new = [old EXCEPT !.download_mbps = ev.speed_mbps]
          /\ ev.kind = "UploadComplete" =>
               new = [old EXCEPT !.upload_mbps = ev.speed_mbps]

C15_Witness ==
  /\ app.phase = "Upload"
  /\ app.result.ping_ms > 0 /\ app.result.download_mbps > 0
  /\ app.result.upload_mbps = 0
  /\ test_rx # None /\ uchan[test_rx] # <<>>
  /\ Head(uchan[test_rx]).kind = "UploadProgress"
  /\ app.upload_samples # <<>>

Ceil(a, b) == (a + b - 1) \div b

\* C18: after its i-th POST the upload probe has sent min(i * 1,000,000, S)
\* bytes of its S declared bytes, so every request carries 1,000,000 bytes
\* except a shorter last one and the lengths sum to S; it has sent all S
\* bytes after exactly ceil(S / 1,000,000) requests, made one at a time.
C18_UploadChunks ==
  \A r \in Runs :
    LET p == probe[r]["Upload"]
    IN p.st = "running" =>
         /\ p.bytes = Min(p.i * CHUNK_SIZE, p.size)
         /\ p.i <= Ceil(p.size, CHUNK_SIZE)
         /\ p.bytes = p.size <=> p.i = Ceil(p.size, CHUNK_SIZE)

C18_Witness ==
  LET p == probe[1]["Upload"]
  IN /\ p.st = "running" /\ p.size = 2500000
     /\ p.i = 3 /\ p.bytes = p.size

\* C19: a POST that fails has the effect of one that succeeds: the probe
\* counts the chunk and goes on to the next; once the upload probe has made
\* a request it never ends with an error, and it ends only after every chunk,
\* with the average of the declared size over the whole elapsed time.
C19_UploadFailureIgnored ==
  [][LET p == probe[1]["Upload"]
         q == probe'[1]["Upload"]
     IN /\ \A dt \in ProbeDts :
             UploadPost(1, dt, FALSE) =>
               /\ UploadPost(1, dt, TRUE)
               /\ q.st = "running" /\ q.i = p.i + 1
               /\ q.bytes = p.bytes + Min(CHUNK_SIZE, p.size - p.bytes)
        /\ (p.st = "running" /\ p.i > 0) => q.st \in {"running", "finished"}
        /\ (p.st = "running" /\ q.st = "finished") =>
             /\ p.bytes = p.size /\ p.i = Ceil(p.size, CHUNK_SIZE)
             /\ q.res = [avg_speed_mbps |-> Mbps(p.size, p.now)]]_vars

C19_Witness ==
  /\ probe[1]["Upload"].st = "finished"
  /\ probe[1]["Upload"].res # <<>>
  /\ produced[1]["Upload"] # <<>>
  /\ Last(produced[1]["Upload"]).total_bytes = 4000000
  /\ Last(produced[1]["Upload"]).uploaded_bytes = 4000000

\* C20: two executions of a download or upload probe that see the same
\* chunks at the same times but sample at different intervals have read the
\* same bytes at the same time throughout and return the same result; only
\* the number of progress events they send differs.
C20_SamplingIndependent ==
  unit.mode = "twin" =>
    /\ unit.p[1].bytes = unit.p[2].bytes
    /\ unit.p[1].now = unit.p[2].now
    /\ unit.res # <<>> => unit.res[1] = unit.res[2]

C20_Witness ==
  /\ unit.mode = "twin" /\ unit.kind = "Download"
  /\ unit.res # <<>>
  /\ unit.res[1] = unit.res[2]
  /\ unit.res[1].avg_speed_mbps > 0
  /\ unit.events[1] > unit.events[2]
  /\ unit.events[2] > 0

\* C17: while a run's task lives, the settings value it owns never changes,
\* whatever happens to the App's settings, and every probe of the run works
\* with the count or size of that value: the value copied at the start.
C17_RunKeepsStartSettings ==
  [][\A r \in Runs :
       (OrchAlive(r) /\ orch'[r].pc \notin {"unborn", "returned"}) =>
         /\ runset'[r] = runset[r]
         /\ \A k \in KindSet :
              probe'[r][k].st = "running" =>
                probe'[r][k].size = ProbeSize(k, runset[r])]_vars

\* the upload probe of a cancelled run has just been spawned, with the size
\* of the run's settings, while the App holds another upload size
C17_Witness ==
  \E r \in Runs :
    /\ cancelled[r] # "no"
    /\ OrchAlive(r)
    /\ probe[r]["Upload"].st = "running"
    /\ probe[r]["Upload"].i = 0
    /\ probe[r]["Upload"].size = ProbeSize("Upload", runset[r])
    /\ ProbeSize("Upload", app.settings) # ProbeSize("Upload", runset[r])

\* the main loop handles key k in this step
KeyStep(k) == pc_main = "input" /\ pc_main' = "recv" /\ key' = k

\* a run_speed_test task is spawned in this step
RunSpawned == \E r \in Runs : ~OrchAlive(r) /\ orch'[r].pc = "init"

\* the step leaves every run and the consumer's receiver as they are
RunUntouched ==
  UNCHANGED <<test_rx, orch, probe, pchan, uchan, cancel_slot, runset>>

\* C29: whenever the view is Settings the phase is Idle or Complete; a run is
\* spawned only by a key handled in the main view; and no step taken while the
\* phase is Ping, Download or Upload changes the settings values.
C29_SettingsOnlyAtRest ==
  [][/\ app'.view = "Settings" => app'.phase \in {"Idle", "Complete"}
     /\ RunSpawned => app.view = "Main"
     /\ (app.phase \in Running \/ app'.phase \in Running) =>
          app'.settings = app.settings]_vars

\* a value has been changed in the settings view while a task of an earlier
\* run is still alive
C29_Witness ==
  /\ app.view = "Settings"
  /\ app.settings \notin SettingsDomain
  /\ app.phase = "Idle"
  /\ \E r \in Runs : OrchAlive(r)

\* C30: a run is spawned only by Enter in the main view with the phase Idle or
\* Complete and no panel expanded; a cancel is carried out only by Esc in the
\* main view with the phase Ping, Download or Upload and no panel expanded;
\* with a panel expanded, Enter and Esc only collapse it; Enter during a
\* running phase with no panel expanded expands the panel and starts nothing.
C30_KeysGateActions ==
  [][/\ RunSpawned =>
          /\ KeyStep("Enter") /\ app.view = "Main" /\ ~app.expanded
          /\ app.phase \in {"Idle", "Complete"}
     /\ \A k \in EditKeys :
          KeyStep(k) =>
            /\ (app.cancel_tx # None /\ app'.cancel_tx = None) =>
                 /\ k = "Esc" /\ app.view = "Main" /\ ~app.expanded
                 /\ app.phase \in Running
            /\ handle_key_event(app, k).action = "CancelTest" =>
                 /\ k = "Esc" /\ app.view = "Main" /\ ~app.expanded
                 /\ app.phase \in Running
            /\ (app.view = "Main" /\ app.expanded /\ k \in {"Enter", "Esc"}) =>
                 /\ app' = [app EXCEPT !.expanded = FALSE]
                 /\ RunUntouched
            /\ (app.view = "Main" /\ ~app.expanded /\ k = "Enter"
                /\ app.phase \in Running) =>
                 /\ app' = [app EXCEPT !.expanded = TRUE]
                 /\ RunUntouched]_vars

\* Esc has just collapsed the panel that Enter expanded during a running
\* phase, and the run goes on
C30_Witness ==
  /\ key = "Esc" /\ pc_main = "recv"
  /\ app.view = "Main" /\ ~app.expanded
  /\ app.phase \in Running
  /\ app.cancel_tx # None
  /\ test_rx # None
  /\ \E r \in Runs : OrchAlive(r) /\ cancelled[r] = "no"

\* progress events of the latency phase the consumer has applied
PingApplied == Len(OfKind(delivered[1], "PingProgress"))

\* C27 (as claimed): after the consumer has applied the progress events of
\* the first n latency attempts, its latency buffer holds one value per
\* successful attempt among them, each the time of a different attempt, in
\* the order of the attempts.
C27_BufferSkipsFailures ==
  LET buf == app.ping_samples
      p == probe[1]["Ping"]
      ok == {i \in 1..PingApplied : \E j \in 1..Len(p.samples) :
                                      p.samples[j] = Rtt(i)}
  IN /\ \A i, j \in 1..Len(buf) : i < j => buf[i] < buf[j]
     /\ p.st = "running" => Len(buf) = Min(Cardinality(ok), PING_WINDOW)

\* the progress event of phase k that is sent in this step, if any
NewEvent(k) ==
  IF Len(produced'[1][k]) = Len(produced[1][k]) + 1
  THEN <<Last(produced'[1][k])>> ELSE <<>>

\* C28: every upload progress event carries the declared size as its total
\* and a byte count above that of the event before it and not above the
\* total; every download progress event carries the total fixed when the
\* response arrived (its content length, or the declared size) and a byte
\* count not below that of the event before it.
C28_ProgressCounts ==
  [][LET u == probe[1]["Upload"]
         d == probe[1]["Download"]
         U == produced[1]["Upload"]
         D == produced[1]["Download"]
     IN /\ \A e \in {NewEvent("Upload")[i] : i \in 1..Len(NewEvent("Upload"))} :
             /\ e.total_bytes = u.size
             /\ e.uploaded_bytes <= e.total_bytes
             /\ U # <<>> =>
                  /\ e.uploaded_bytes > Last(U).uploaded_bytes
                  /\ e.total_bytes = Last(U).total_bytes
        /\ \A e \in {NewEvent("Download")[i] :
                       i \in 1..Len(NewEvent("Download"))} :
             /\ e.total_bytes = d.total
             /\ e.total_bytes \in {d.size} \cup ContentLengths
             /\ D # <<>> =>
                  /\ e.downloaded_bytes >= Last(D).downloaded_bytes
                  /\ e.total_bytes = Last(D).total_bytes
        /\ (d.st = "running" /\ d.pc # "request"
            /\ probe'[1]["Download"].st = "running") =>
             probe'[1]["Download"].total = d.total]_vars

\* two download events with the content length as total, then two upload
\* events, the second at the full declared size
C28_Witness ==
  LET U == produced[1]["Upload"]
      D == produced[1]["Download"]
  IN /\ Len(D) = 2 /\ Len(U) = 2
     /\ D[1].total_bytes = 750000 /\ D[2].total_bytes = 750000
     /\ D[1].downloaded_bytes < D[2].downloaded_bytes
     /\ U[1].uploaded_bytes < U[2].uploaded_bytes
     /\ U[2].uploaded_bytes = U[2].total_bytes

\* cumulative byte count carried by a download or upload progress event
Cum(e) ==
  IF e.kind = "DownloadProgress" THEN e.downloaded_bytes ELSE e.uploaded_bytes

\* C22: in the download and upload probes a chunk that completes makes a
\* sample point exactly when at least 100 ms have passed since the previous
\* sample point (the start, before the first); the interval of a sample point
\* counts the bytes after the cumulative count of the previous progress event
\* up to the current count, so the intervals are disjoint and add up to the
\* count the event carries; the event goes out with that count and the
\* window, and only then do the anchors move to this sample point.
C22_SamplePoints ==
  [][\A k \in {"Download", "Upload"} :
       LET p == probe[1][k]
           q == probe'[1][k]
           E == produced[1][k]
           prev == IF E = <<>> THEN 0 ELSE Cum(Last(E))
       IN (p.st = "running" /\ q.st = "running") =>
            /\ q.i = p.i + 1 =>
                 /\ p.pc # "send"
                 /\ p.last_bytes = prev
                 /\ q.bytes >= prev
                 /\ q.pc = "send" <=> q.now - p.last_update >= 100
                 /\ q.pc = "send" =>
                      q.samples =
                        PushSample(p.samples,
                                   Mbps(q.bytes - prev, q.now - p.last_update))
                 /\ q.pc # "send" => q.samples = p.samples
                 /\ q.last_update = p.last_update
                 /\ q.last_bytes = p.last_bytes
                 /\ NewEvent(k) = <<>>
            /\ (p.pc = "send" /\ q.pc # "send") =>
                 /\ NewEvent(k) # <<>>
                 /\ Cum(NewEvent(k)[1]) = p.bytes
                 /\ NewEvent(k)[1].speed_samples = p.samples
                 /\ q.now = p.now /\ q.bytes = p.bytes
                 /\ q.last_update = p.now
                 /\ q.last_update - p.last_update >= 100
                 /\ q.last_bytes = p.bytes]_vars

\* an upload whose first chunk completed too early for a sample point has
\* made two sample points, of 2,000,000 and of 1,000,000 bytes
C22_Witness ==
  LET U == produced[1]["Upload"]
      p == probe[1]["Upload"]
  IN /\ p.st = "running" /\ p.pc = "post" /\ p.i = 3
     /\ Len(U) = 2
     /\ U[1].uploaded_bytes = 2000000 /\ U[2].uploaded_bytes = 3000000
     /\ p.samples = <<Mbps(2000000, 100), Mbps(1000000, 100)>>
     /\ p.last_bytes = 3000000 /\ p.last_update = 200

\* the orchestrator of run r takes a progress event off its queue in this
\* step
TakesProgress(r) ==
  /\ orch[r].pc = "recv"
  /\ pchan[r][orch[r].k] # <<>>
  /\ orch'[r] # orch[r]

\* C23: when the orchestrator takes a progress event from the probe while a
\* cancel signal is in the slot, it forwards nothing, aborts the probe and
\* returns; it goes on to forward an event only when the slot was empty at
\* that moment; and only an orchestrator that has not returned puts anything
\* on the outward channel.
C23_CancelCheckedBeforeForward ==
  [][\A r \in Runs :
       /\ (TakesProgress(r) /\ cancel_slot[r] > 0) =>
            /\ orch'[r].pc \in {"unborn", "returned"}
            /\ orch'[r].ev = <<>>
            /\ \A k \in KindSet : probe'[r][k].st # "running"
            /\ uchan'[r] = uchan[r] /\ emitted'[r] = emitted[r]
            /\ cancel_slot'[r] = 0
       /\ (TakesProgress(r) /\ orch'[r].pc = "send") => cancel_slot[r] = 0
       /\ Len(uchan'[r]) > Len(uchan[r]) =>
            orch[r].pc \in {"send", "complete"}]_vars

\* a cancel signal is in the slot and a progress event is in the queue of the
\* orchestrator, which is about to take it
C23_Witness ==
  \E r \in Runs :
    /\ orch[r].pc = "recv"
    /\ cancel_slot[r] > 0
    /\ pchan[r][orch[r].k] # <<>>
    /\ cancelled[r] = "inflight"
    /\ orch[r].k = "Upload"
    /\ test_rx = None /\ app.phase = "Idle"

\* the probe of phase k of run r waits for room in its progress queue
ProbeBlocked(r, k) ==
  /\ probe[r][k].st = "running" /\ probe[r][k].pc = "send"
  /\ ~CanSendProgress(r, k)

\* the orchestrator of run r waits for room in the update queue
OrchBlocked(r) == orch[r].pc \in {"send", "complete"} /\ ~CanSendUpdate(r)

\* C25: no queue ever holds more events than its capacity; a producer that
\* finds its queue full keeps its event and stays where it is until there is
\* room (or its task is aborted), and a send puts exactly one event at the
\* end of the queue; under fair scheduling every blocked producer gets to go
\* on.
C25_BoundedQueues ==
  /\ [](\A r \in Runs :
          /\ Len(uchan[r]) <= ChanCap
          /\ \A k \in KindSet : Len(pchan[r][k]) <= ChanCap)
  /\ [][\A r \in Runs :
          /\ OrchBlocked(r) => orch'[r] = orch[r]
          /\ \A k \in KindSet :
               /\ ProbeBlocked(r, k) =>
                    (probe'[r][k] = probe[r][k] \/ probe'[r][k].st # "running")
               /\ (probe[r][k].st = "running" /\ probe[r][k].pc = "send"
                   /\ probe'[r][k].st = "running" /\ probe'[r][k].pc # "send")
                    => /\ Len(pchan[r][k]) < ChanCap
                       /\ Len(pchan'[r][k]) = Len(pchan[r][k]) + 1]_vars
  /\ \A r \in Runs :
       /\ OrchBlocked(r) ~> ~OrchBlocked(r)
       /\ \A k \in KindSet : ProbeBlocked(r, k) ~> ~ProbeBlocked(r, k)

\* both queues of a run are full and both producers wait
C25_Witness ==
  \E r \in Runs :
    /\ OrchBlocked(r)
    /\ ProbeBlocked(r, "Upload")
    /\ Len(uchan[r]) = ChanCap /\ Len(pchan[r]["Upload"]) = ChanCap

\* the consumer has applied the whole event sequence of the run it is
\* attached to: the phase is Complete and RunResult holds the three results
RunDone ==
  /\ test_rx # None
  /\ app.phase = "Complete"
  /\ FullRun(delivered[test_rx])
  /\ app.result = ResultFrom(delivered[test_rx])

\* a probe task has ended with an error
ProbeErrored == \E r \in Runs, k \in KindSet : probe[r][k].st = "failed"

\* C21: under fair scheduling, from every state in which a run has been
\* started, either the run is cancelled (the phase goes back to Idle), or one
\* of its probes returns an error, or the phase reaches Complete with the
\* latency, download and upload results of the run's complete events recorded
\* in RunResult.
C21_RunCompletes ==
  (app.phase = "Ping" /\ test_rx # None) ~>
    (RunDone \/ app.phase = "Idle" \/ ProbeErrored)

C21_Witness ==
  /\ RunDone
  /\ ~ProbeErrored
  /\ app.result.ping_ms > 0
  /\ app.result.download_mbps > 0
  /\ app.result.upload_mbps > 0
  /\ \A r \in Runs : cancelled[r] = "no"

\* run r is cancelled and one of its tasks is still alive
WindingDown(r) ==
  /\ cancelled[r] # "no"
  /\ OrchAlive(r) \/ \E k \in KindSet : probe[r][k].st = "running"

\* C24: under fair scheduling, with every network operation returning, a
\* cancelled run whose orchestrator or probe is still alive leads to a state
\* in which its orchestrator has returned and none of its probes is running;
\* in particular an orchestrator that has an event to send to the dropped
\* receiver goes on.
C24_CancelledRunEnds ==
  \A r \in Runs :
    /\ WindingDown(r) ~>
         (~OrchAlive(r) /\ \A k \in KindSet : probe[r][k].st # "running")
    /\ (WindingDown(r) /\ orch[r].pc \in {"send", "complete"} /\ test_rx # r)
         ~> (orch[r].pc \notin {"send", "complete"})

\* the receiver of a cancelled run is dropped while its orchestrator has a
\* progress event of the upload phase to send and the probe is still running
C24_Witness ==
  \E r \in Runs :
    /\ WindingDown(r)
    /\ test_rx = None
    /\ orch[r].pc = "send" /\ orch[r].k = "Upload"
    /\ probe[r]["Upload"].st = "running"

\* what a run shows in the App: phase, RunResult, sample buffers, progress
RunView(a) ==
  <<a.phase, a.result, a.ping_samples, a.download_samples, a.upload_samples,
    a.download_progress, a.upload_progress>>

\* run n is attached to the consumer while a cancelled run is winding down
NewBesideOld(n) ==
  /\ test_rx = n
  /\ cancelled[n] = "no"
  /\ \E old \in Runs : old # n /\ WindingDown(old)

\* C26: while a new run is attached and a cancelled run is still winding
\* down, the queue the consumer reads grows only by a send of the new run's
\* own orchestrator, the cancelled run's queue stays empty, and what the App
\* shows of the run changes only by a key or by applying the head of the new
\* run's queue, which is the next event that the new run's orchestrator sent.
C26_OldRunIsMute ==
  [][\A n \in Runs :
       NewBesideOld(n) =>
         /\ \A old \in Runs \ {n} : cancelled[old] # "no" => uchan'[old] = <<>>
         /\ Len(uchan'[n]) > Len(uchan[n]) =>
              /\ orch[n].pc \in {"send", "complete"}
              /\ orch'[n] # orch[n]
              /\ \A old \in Runs \ {n} : orch'[old] = orch[old]
         /\ RunView(app') # RunView(app) =>
              \/ pc_main = "input"
              \/ /\ pc_main = "recv"
                 /\ uchan[n] # <<>>
                 /\ app' = handle_update(app, Head(uchan[n]))
                 /\ Len(delivered[n]) < Len(emitted[n])
                 /\ Head(uchan[n]) = emitted[n][Len(delivered[n]) + 1]
              \/ /\ pc_main = "recv"
                 /\ uchan[n] = <<>> /\ ~OrchAlive(n)
                 /\ app' = complete_test(app)]_vars

\* the new run has had its latency result applied while the orchestrator of
\* the cancelled run is still sending
C26_Witness ==
  \E n \in Runs :
    /\ NewBesideOld(n)
    /\ app.phase = "Download"
    /\ app.result.ping_ms > 0
    /\ \E old \in Runs \ {n} :
         /\ cancelled[old] = "inflight"
         /\ orch[old].pc \in {"send", "complete"}

\* C31: a cancel channel never holds more than one signal; a signal enters
\* run r's slot only in a cancel step, taken while the App holds r's sender
\* and the slot is empty, so try_send never finds it full; that step leaves
\* the App without a sender, so that a further cancel_test would send
\* nothing; and while the App holds no sender no slot receives a signal. The
\* sender the App holds has never sent.
C31_OneCancelSignal ==
  [][/\ \A r \in Runs :
          /\ cancel_slot'[r] <= 1
          /\ cancel_slot'[r] > cancel_slot[r] =>
               /\ CancelIssued
               /\ app.cancel_tx = r
               /\ cancel_slot[r] = 0
     /\ CancelIssued =>
          /\ app'.cancel_tx = None
          /\ cancel_test(app').signal = None
          /\ (app.cancel_tx # None /\ OrchAlive(app.cancel_tx)) =>
               /\ cancel_slot[app.cancel_tx] = 0
               /\ cancel_slot'[app.cancel_tx] = 1
     /\ app.cancel_tx = None =>
          \A r \in Runs : cancel_slot'[r] <= cancel_slot[r]
     /\ app'.cancel_tx # None => cancel_slot'[app'.cancel_tx] = 0]_vars

\* two runs have been cancelled one after the other and the signal of each
\* is still in its own slot
C31_Witness ==
  /\ app.cancel_tx = None
  /\ app.phase = "Idle"
  /\ \A r \in Runs : cancel_slot[r] = 1 /\ OrchAlive(r) /\ cancelled[r] # "no"
====
